---- MODULE Spec2Model ----
(***************************************************************************)
(* Adaptive Cache & Prefetch Engine.                                       *)
(*                                                                         *)
(* Part I  : the media worker's Preload Queue (src/unnamed/part_006).      *)
(* Part II : the service worker's strategies and trimCache                 *)
(*           (src/unnamed/part_005).                                       *)
(* Part III: the Prefetch Scheduler (src/src/js/player.js).                *)
(*                                                                         *)
(* One action is one run of a handler or of a continuation between two     *)
(* suspension points of the single event loop.                             *)
(***************************************************************************)
EXTENDS Integers, Sequences, FiniteSets, Bags, TLC

VARIABLES
    state,        \* the worker's `state` object (part_006:7-17)
    items,        \* the queueItem objects created by preloadTrack, by creation order;
                  \* Gone once nothing references the object any more
    tasks,        \* per item: the processQueue invocation suspended at `await fetchAndCache`
    timers,       \* items held by a pending retry setTimeout callback
    posted,       \* the notifications posted to the main thread by the last step
    starts,       \* history: per item, number of fetches started
    decs,         \* history: per item, decrements of currentPreloads charged to its last dispatch
    cancelledAt,  \* history: per item, its attempts when a CANCEL_PRELOAD for its id found it
                  \* queued, in state.preloading or waiting for a retry timer; -1 if none did
    used,         \* history: environment events so far, [failures, cancels, clears]
    burst,        \* history: the items created by the latest run of back-to-back
                  \* PRELOAD_TRACK messages for distinct ids that began in an idle worker;
                  \* kept after the run once it has three items, while the third waits
    fifo,         \* history: the items of state.preloadQueue in the order they entered it
    media         \* Cache Storage: the cache 'media-cache' of the worker, <<>> while it does
                  \* not exist, else <<the ids whose media is stored in it>>

VARIABLES
    store,        \* Cache Storage: per partition, the stored request URLs in insertion order
    open,         \* the strategy executions whose handler or cache write is not finished
    ended,        \* the strategy executions that finished in the last step
    aged,         \* the stored URLs whose entry is older than the TTL of its partition
    classified    \* the request last classified and the strategy chosen for it

VARIABLES
    prefetch,     \* the Prefetch instance of player.js: prefetchQueue, prefetching,
                  \* prefetched, config and networkInfo
    calls,        \* per URL, the prefetchResource calls suspended at an await on the network
    begun,        \* history: the resource fetches begun by prefetchResource in the last step
    now           \* Date.now(), in ticks

VARIABLES
    observed,     \* history: the connectivity last signalled to the worker (SET_NETWORK
                  \* data) and whether the Prefetch instance has handled a change event
    handled,      \* history: the control message last received by the worker and the
                  \* SUCCESS / ERROR responses posted for it
    precached     \* history: the static resources that failed to load in the last
                  \* pre-population, or "none" before the first one

VARIABLES
    others,       \* Cache Storage: per name, the caches that are neither a current
                  \* partition of the service worker nor 'media-cache'; <<>> while the
                  \* cache does not exist, else <<its number of entries>>
    cleaned       \* history: the last run of a cleanOldCaches, <<>> before the first
                  \* one, else <<[by: the component, deleted: the names it deleted]>>

VARIABLES
    deduped       \* the last run of ChunkGenerator.processMovies, <<>> before the first
                  \* one, else <<[movies: the records it was given, maps: uniqueMap
                  \* after each record, allMovies, duplicatesRemoved]>>

wvars == <<state, items, tasks, timers, posted, starts, decs, cancelledAt, used, burst, fifo, media>>
swvars == <<store, open, ended, aged, classified>>
pvars == <<prefetch, calls, begun, now>>
hvars == <<observed, handled, precached>>
cvars == <<others, cleaned>>
mvars == <<deduped>>
vars == <<wvars, swvars, pvars, hvars, cvars, mvars>>

----------------------------------------------------------------------------
(* Bounds *)

MaxTracks == 1          \* queueItem objects created in one behaviour of Spec
MaxBurst == 4           \* queueItem objects created in one behaviour of SpecBurst
MaxRankedFailures == 1  \* fetches the network fails in one behaviour of SpecRanked
MaxRanked == 4          \* queueItem objects created in one behaviour of SpecRanked
MaxFailures == 4        \* fetches the network fails in one behaviour
MaxCancels == 1         \* CANCEL_PRELOAD messages in one behaviour
MaxClears == 1          \* CLEAR_CACHE messages in one behaviour
MaxOpen == 1            \* strategy executions open at the same time
MaxApiUrls == 31        \* distinct /api/ URLs stored in one behaviour
MaxPageUrls == 51       \* distinct page URLs stored in one behaviour
MaxImageUrls == 1       \* distinct /images/ URLs stored in one behaviour
MaxFewUrls == 1         \* URLs of each shape requested in one behaviour of SpecStrat
MaxAdds == 5            \* addToQueue calls in one behaviour of SpecPrefetch
MaxFill == 24           \* addToQueue calls in one behaviour of SpecFill
MaxMix == 2             \* size of the smaller priority group of the queue in SpecFill
MaxHangTracks == 3      \* queueItem objects created in one behaviour of SpecHang
MaxMessageTracks == 1   \* queueItem objects created in one behaviour of SpecMessages
MaxBad == 2             \* static resources that fail to load in one pre-population
MaxAdaptAdds == 3       \* addToQueue calls in one behaviour of SpecAdapt
MaxMonitorAdds == 2     \* addToQueue calls in one behaviour of SpecMonitor
MaxMonitorTracks == 2   \* queueItem objects created in one behaviour of SpecMonitor

Ids == {"a", "b", "c"}
Priorities == {"high", "medium"}
NetTypes == {"2g", "3g", "4g"}
ConfigMaxConcurrent == {0, 1}           \* 0: config.maxConcurrent absent

(* Program constants *)

RETRY_ATTEMPTS == 3
DefaultMaxConcurrent == 2

Largest(S) == CHOOSE n \in S : \A m \in S : m <= n
Slots == Largest({MaxTracks, MaxBurst, MaxRanked})
Uids == 1..Slots

----------------------------------------------------------------------------
(* Part I: media worker *)

InitState ==
    [preloadQueue    |-> <<>>,
     preloading      |-> [i \in Ids |-> 0],      \* id -> item whose AbortController is stored, 0 = no entry
     preloaded       |-> {},
     currentPreloads |-> 0,
     maxConcurrent   |-> DefaultMaxConcurrent,
     networkType     |-> "unknown"]

\* the state a handler or continuation starts from
World ==
    [state |-> state, items |-> items, tasks |-> tasks, timers |-> timers,
     posted |-> {}, starts |-> starts, decs |-> decs, cancelledAt |-> cancelledAt,
     fifo |-> fifo, media |-> media]

InQueue(w, u) == \E k \in 1..Len(w.state.preloadQueue) : w.state.preloadQueue[k] = u

\* an item object is referenced by the queue, by a suspended processQueue
\* invocation or by a pending retry timer
Live(w, u) ==
    \/ InQueue(w, u)
    \/ w.tasks[u] # "none"
    \/ u \in w.timers

Gone == [id |-> "-", priority |-> "-", attempts |-> 0]

\* the state a handler or continuation leaves behind; unreferenced item
\* objects are garbage and their history is dropped with them
CommitWorker(w) ==
    LET dead(u) == u <= Len(w.items) /\ ~Live(w, u) IN
    /\ state' = w.state
    /\ items' = [u \in DOMAIN w.items |-> IF dead(u) THEN Gone ELSE w.items[u]]
    /\ tasks' = w.tasks
    /\ timers' = w.timers
    /\ posted' = w.posted
    /\ starts' = [u \in Uids |-> IF dead(u) THEN 0 ELSE w.starts[u]]
    /\ decs' = [u \in Uids |-> IF dead(u) THEN 0 ELSE w.decs[u]]
    /\ cancelledAt' = [u \in Uids |-> IF dead(u) THEN -1 ELSE w.cancelledAt[u]]
    /\ fifo' = w.fifo
    /\ media' = w.media

Commit(w) == CommitWorker(w) /\ UNCHANGED <<swvars, pvars, hvars, cvars, mvars>>

Note(kind, w, u) == [type |-> kind, trackId |-> w.items[u].id, item |-> u]

\* processQueue up to its first suspension: dispatches at most one item
ProcessQueue(w) ==
    IF w.state.currentPreloads >= w.state.maxConcurrent THEN w
    ELSE IF w.state.preloadQueue = <<>> THEN w
    ELSE LET u == Head(w.state.preloadQueue) IN
         [w EXCEPT !.state.preloadQueue = Tail(@),
                   !.state.currentPreloads = @ + 1,
                   !.state.preloading[w.items[u].id] = u,
                   !.tasks[u] = "fetching",
                   !.starts[u] = @ + 1,
                   !.decs[u] = 0,
                   !.fifo = SelectSeq(@, LAMBDA v : v # u)]

\* preloadTrack(track): part_006:156-183
PreloadTrackH(w, id, priority) ==
    IF id \in w.state.preloaded THEN w
    ELSE IF w.state.preloading[id] # 0 THEN w
    ELSE LET u == Len(w.items) + 1
             queueItem == [id |-> id, priority |-> priority, attempts |-> 0]
             w1 == [w EXCEPT !.items = Append(@, queueItem),
                             !.fifo = Append(@, u),
                             !.state.preloadQueue =
                                 IF priority = "high" THEN <<u>> \o @ ELSE Append(@, u)]
         IN  ProcessQueue(w1)

\* the finally block of processQueue: part_006:257-264
Finally(w, u) ==
    ProcessQueue([w EXCEPT !.state.preloading[w.items[u].id] = 0,
                           !.state.currentPreloads = @ - 1,
                           !.decs[u] = @ + 1,
                           !.tasks[u] = "none"])

\* cache.put on the cache that caches.open('media-cache') returns; caches.open
\* creates the cache when it does not exist: part_006:299-309
CachePut(cache, id) == IF cache = <<>> THEN <<{id}>> ELSE <<cache[1] \cup {id}>>

\* fetchAndCache stored the media and returned a result: part_006:295-309 and
\* 228-239, then finally
OnResolved(w, u) ==
    Finally([w EXCEPT !.media = CachePut(@, w.items[u].id),
                      !.state.preloaded = @ \cup {w.items[u].id},
                      !.posted = @ \cup {Note("PRELOAD_COMPLETE", w, u)}], u)

\* mutant of OnThrown: retries while attempts <= RETRY_ATTEMPTS
OnThrownRetriesAtLimit(w, u) ==
    IF w.items[u].attempts <= RETRY_ATTEMPTS
    THEN Finally([w EXCEPT !.items[u].attempts = @ + 1,
                           !.timers = @ \cup {u}], u)
    ELSE Finally([w EXCEPT !.posted = @ \cup {Note("PRELOAD_FAILED", w, u)}], u)

\* the catch block of processQueue: part_006:241-256, then finally
OnThrown(w, u) ==
    IF w.items[u].attempts < RETRY_ATTEMPTS
    THEN Finally([w EXCEPT !.items[u].attempts = @ + 1,
                           !.timers = @ \cup {u}], u)
    ELSE Finally([w EXCEPT !.posted = @ \cup {Note("PRELOAD_FAILED", w, u)}], u)

\* the retry setTimeout callback: part_006:249-252
OnTimer(w, u) ==
    ProcessQueue([w EXCEPT !.timers = @ \ {u},
                           !.state.preloadQueue = Append(@, u),
                           !.fifo = Append(@, u)])

\* cancelPreload(trackId): part_006:362-378
CancelPreloadH(w, trackId) ==
    LET keep(v) == w.items[v].id # trackId
        found(v) == /\ v <= Len(w.items)
                    /\ w.items[v].id = trackId
                    /\ (InQueue(w, v) \/ w.state.preloading[trackId] = v \/ v \in w.timers)
        w1 == [w EXCEPT !.state.preloadQueue = SelectSeq(@, keep),
                        !.fifo = SelectSeq(@, keep),
                        !.cancelledAt = [v \in Uids |->
                             IF found(v) /\ @[v] = -1 THEN w.items[v].attempts ELSE @[v]]]
        u  == w.state.preloading[trackId]
    IN  IF u # 0
        THEN ProcessQueue([w1 EXCEPT !.tasks[u] = "aborted",
                                     !.state.preloading[trackId] = 0,
                                     !.state.currentPreloads = @ - 1,
                                     !.decs[u] = @ + 1])
        ELSE w1

\* clearCache(): part_006:645-655
ClearCacheH(w) ==
    [w EXCEPT !.state.preloaded = {},
              !.state.preloading = [i \in Ids |-> 0],
              !.state.preloadQueue = <<>>,
              !.fifo = <<>>,
              !.media = <<>>]

\* initialize(config): part_006:120-147
InitializeH(w, cfgMax) ==
    IF cfgMax # 0 THEN [w EXCEPT !.state.maxConcurrent = cfgMax] ELSE w

\* mutant of SetNetworkInfoH: restarts the in-flight counter
SetNetworkInfoHResetsCounter(w, type) ==
    [w EXCEPT !.state.networkType = type,
              !.state.currentPreloads = 0,
              !.state.maxConcurrent =
                  IF type \in {"2g", "slow-2g"} THEN 1
                  ELSE IF type = "3g" THEN 2
                  ELSE 3]

\* setNetworkInfo(info): part_006:668-681
SetNetworkInfoH(w, type) ==
    [w EXCEPT !.state.networkType = type,
              !.state.maxConcurrent =
                  IF type \in {"2g", "slow-2g"} THEN 1
                  ELSE IF type = "3g" THEN 2
                  ELSE 3]

----------------------------------------------------------------------------
(* Part III: the Prefetch Scheduler (class Prefetch, src/src/js/player.js) *)

maxQueueSize == 20
PrefetchMaxConcurrent == 2

EffectiveTypes == {"slow-2g", "2g", "3g", "4g"}

\* a URL, by what detectResourceType looks at: whether it contains "/api/"
\* and its extension ("" when it contains no dot); n tells URLs apart
Url(api, ext, n) == [api |-> api, ext |-> ext, n |-> n]

\* detectResourceType(url): player.js:1449-1456
DetectResourceType(url) ==
    IF url.api THEN "api"
    ELSE IF url.ext \in {"jpg", "jpeg", "png", "webp", "svg"} THEN "image"
    ELSE IF url.ext \in {"mp3", "m4a", "opus", "webm"} THEN "audio"
    ELSE IF url.ext \in {"html", ""} THEN "page"
    ELSE "unknown"

\* the instance after the constructor, where navigator.connection is absent
\* or reports 4g without data-saver: player.js:1095-1124, 1162-1179
InitPrefetch ==
    [prefetchQueue |-> <<>>,
     prefetching   |-> {},
     prefetched    |-> {},
     config        |-> [maxConcurrent |-> PrefetchMaxConcurrent,
                        resourceTypes |-> [page |-> TRUE, image |-> TRUE,
                                           audio |-> FALSE, api |-> TRUE]],
     networkInfo   |-> [effectiveType |-> "4g", saveData |-> FALSE]]

\* the state a handler of the Prefetch instance starts from
PWorld == [prefetch |-> prefetch, calls |-> calls, begun |-> {}]

\* config.resourceTypes[resourceType]; undefined for "unknown"
TypeEnabled(p, resourceType) ==
    resourceType # "unknown" /\ p.prefetch.config.resourceTypes[resourceType]

RECURSIVE PrefetchProcessQueue(_)

\* the finally block of prefetchResource: player.js:1437-1443
PrefetchFinally(p, url) ==
    PrefetchProcessQueue([p EXCEPT !.prefetch.prefetching = @ \ {url}])

\* prefetchResource(url) up to its suspension on the network, player.js:1404-1444.
\* A disabled type returns at once; prefetchPage and prefetchAudio resolve
\* without waiting for the network, so the call is over before the next event.
PrefetchResource(p, url) ==
    LET resourceType == DetectResourceType(url)
        p1 == [p EXCEPT !.prefetch.prefetching = @ \cup {url}]
        p2 == [p1 EXCEPT !.begun = @ \cup {url}]
    IN  IF ~TypeEnabled(p1, resourceType) THEN PrefetchFinally(p1, url)
        ELSE IF resourceType \in {"page", "audio"}
        THEN PrefetchFinally([p2 EXCEPT !.prefetch.prefetched = @ \cup {url}], url)
        ELSE [p2 EXCEPT !.calls = @ (+) SetToBag({url})]

\* processQueue(): player.js:1382-1399
PrefetchProcessQueue(p) ==
    IF Cardinality(p.prefetch.prefetching) >= p.prefetch.config.maxConcurrent THEN p
    ELSE IF p.prefetch.prefetchQueue = <<>> THEN p
    ELSE PrefetchResource([p EXCEPT !.prefetch.prefetchQueue = Tail(@)],
                          Head(p.prefetch.prefetchQueue).url)

priorityOrder == [high |-> 0, medium |-> 1, low |-> 2]

\* the comparator of cleanQueue: player.js:1365-1373
SortsBefore(a, b) ==
    \/ priorityOrder[a.priority] < priorityOrder[b.priority]
    \/ /\ priorityOrder[a.priority] = priorityOrder[b.priority]
       /\ a.timestamp > b.timestamp

Smaller(m, n) == IF m < n THEN m ELSE n

\* mutant of CleanQueue: keeps the tail of the sorted queue
CleanQueueKeepsTail(p) ==
    LET sorted == SortSeq(p.prefetch.prefetchQueue, SortsBefore) IN
    [p EXCEPT !.prefetch.prefetchQueue =
        SubSeq(sorted, Len(sorted) - Smaller(Len(sorted), maxQueueSize - 5) + 1, Len(sorted))]

\* cleanQueue(): player.js:1363-1377
CleanQueue(p) ==
    LET sorted == SortSeq(p.prefetch.prefetchQueue, SortsBefore) IN
    [p EXCEPT !.prefetch.prefetchQueue =
        SubSeq(sorted, 1, Smaller(Len(sorted), maxQueueSize - 5))]

\* addToQueue(url, priority): player.js:1335-1358
AddToQueueH(p, url, priority, timestamp) ==
    IF url \in p.prefetch.prefetched \/ url \in p.prefetch.prefetching THEN p
    ELSE LET p1 == IF Len(p.prefetch.prefetchQueue) >= maxQueueSize THEN CleanQueue(p) ELSE p
             queueItem == [url |-> url, priority |-> priority, timestamp |-> timestamp]
         IN  PrefetchProcessQueue([p1 EXCEPT !.prefetch.prefetchQueue =
                 IF priority = "high" THEN <<queueItem>> \o @ ELSE Append(@, queueItem)])

\* mutant of AdjustStrategy: audio stays enabled under 3g
AdjustStrategyAudioOn3g(p) ==
    LET effectiveType == p.prefetch.networkInfo.effectiveType IN
    IF p.prefetch.networkInfo.saveData
    THEN [p EXCEPT !.prefetch.config.maxConcurrent = 1,
                   !.prefetch.config.resourceTypes.image = FALSE,
                   !.prefetch.config.resourceTypes.audio = FALSE]
    ELSE IF effectiveType = "4g"
    THEN [p EXCEPT !.prefetch.config.maxConcurrent = 3,
                   !.prefetch.config.resourceTypes.image = TRUE,
                   !.prefetch.config.resourceTypes.audio = TRUE]
    ELSE IF effectiveType = "3g"
    THEN [p EXCEPT !.prefetch.config.maxConcurrent = 2,
                   !.prefetch.config.resourceTypes.image = TRUE,
                   !.prefetch.config.resourceTypes.audio = TRUE]
    ELSE [p EXCEPT !.prefetch.config.maxConcurrent = 1,
                   !.prefetch.config.resourceTypes.image = FALSE,
                   !.prefetch.config.resourceTypes.audio = FALSE]

\* adjustStrategy(): player.js:1196-1225
AdjustStrategy(p) ==
    LET effectiveType == p.prefetch.networkInfo.effectiveType IN
    IF p.prefetch.networkInfo.saveData
    THEN [p EXCEPT !.prefetch.config.maxConcurrent = 1,
                   !.prefetch.config.resourceTypes.image = FALSE,
                   !.prefetch.config.resourceTypes.audio = FALSE]
    ELSE IF effectiveType = "4g"
    THEN [p EXCEPT !.prefetch.config.maxConcurrent = 3,
                   !.prefetch.config.resourceTypes.image = TRUE,
                   !.prefetch.config.resourceTypes.audio = TRUE]
    ELSE IF effectiveType = "3g"
    THEN [p EXCEPT !.prefetch.config.maxConcurrent = 2,
                   !.prefetch.config.resourceTypes.image = TRUE,
                   !.prefetch.config.resourceTypes.audio = FALSE]
    ELSE IF effectiveType \in {"2g", "slow-2g"}
    THEN [p EXCEPT !.prefetch.config.maxConcurrent = 1,
                   !.prefetch.config.resourceTypes.image = FALSE,
                   !.prefetch.config.resourceTypes.audio = FALSE]
    ELSE p

\* the connection's change listener: player.js:1186-1189
OnConnectionChange(p, effectiveType, saveData) ==
    AdjustStrategy([p EXCEPT !.prefetch.networkInfo =
                        [effectiveType |-> effectiveType, saveData |-> saveData]])

\* the awaited prefetchImage / prefetchAPI resolved: player.js:1431-1432, then finally
OnPrefetched(p, url) ==
    PrefetchFinally([p EXCEPT !.calls = @ (-) SetToBag({url}),
                              !.prefetch.prefetched = @ \cup {url}], url)

\* the awaited prefetchImage / prefetchAPI rejected: player.js:1434-1436, then finally
OnPrefetchFailed(p, url) ==
    PrefetchFinally([p EXCEPT !.calls = @ (-) SetToBag({url})], url)

InitOther ==
    /\ prefetch = InitPrefetch
    /\ calls = EmptyBag
    /\ begun = {}
    /\ now = 0
    /\ observed = [worker |-> <<>>, prefetch |-> FALSE]
    /\ handled = <<>>
    /\ precached = <<>>
    /\ deduped = <<>>

----------------------------------------------------------------------------
(* Actions of the media worker *)

Partitions == {"static", "dynamic", "media", "images", "api"}
Shapes == {"api", "page", "image"}

\* A cache name is `${prefix}-${kind}-${version}`, or `${kind}-${version}`
\* when it has no prefix, or a bare word; name.startsWith(prefix) is a test
\* of its first part.
CacheName(prefix, kind, version) == [prefix |-> prefix, kind |-> kind, version |-> version]

CACHE_VERSION == "v1.0.0"
CACHE_PREFIX == "tv-music-app"

\* the version a previous deployment ran with
PreviousVersion == "v0.9.0"

\* CACHES: the names of the current partitions of the service worker
CACHES(p) == CacheName(CACHE_PREFIX, p, CACHE_VERSION)

\* the cache of the media worker: caches.open('media-cache')
MediaCache == CacheName("", "media-cache", "")

\* CacheManager.cacheNames, for a CacheManager of version `version`
ManagerCacheNames(version) ==
    {CacheName("", kind, version) : kind \in {"static", "dynamic", "audio", "images", "api"}}

\* the partitions a previous version of the service worker left behind and
\* the static cache a previous version of the CacheManager left behind
PreviousNames ==
    {CacheName(CACHE_PREFIX, p, PreviousVersion) : p \in Partitions}
        \cup {CacheName("", "static", PreviousVersion)}

OtherNames == PreviousNames \cup {CacheName("", "static", CACHE_VERSION)}

InitSW ==
    /\ others = [n \in OtherNames |-> <<>>]
    /\ cleaned = <<>>
    /\ store = [p \in Partitions |-> <<>>]
    /\ open = {}
    /\ ended = {}
    /\ aged = {}
    /\ classified = <<>>

Init ==
    /\ InitSW
    /\ InitOther
    /\ state = InitState
    /\ items = <<>>
    /\ tasks = [u \in Uids |-> "none"]
    /\ timers = {}
    /\ posted = {}
    /\ starts = [u \in Uids |-> 0]
    /\ decs = [u \in Uids |-> 0]
    /\ cancelledAt = [u \in Uids |-> -1]
    /\ used = [failures |-> 0, cancels |-> 0, clears |-> 0]
    /\ burst = <<>>
    /\ fifo = <<>>
    /\ media = <<>>

\* nothing queued, nothing in state.preloading, no fetch and no retry timer pending
Idle ==
    /\ state.preloadQueue = <<>>
    /\ \A i \in Ids : state.preloading[i] = 0
    /\ \A u \in Uids : tasks[u] = "none"
    /\ timers = {}

\* the third item of a complete burst still waits for its first dispatch
ThirdWaits(w, b) == Len(b) = 3 /\ InQueue(w, b[3]) /\ w.starts[b[3]] = 0

\* burst after a PRELOAD_TRACK(id) that led from the current state to w
BurstAfterTrack(w, id) ==
    LET u == Len(w.items)
        created == Len(w.items) = Len(items) + 1
        fresh == \A k \in 1..Len(burst) : items[burst[k]].id # id
    IN  IF Len(burst) = 3 THEN (IF ThirdWaits(w, burst) THEN burst ELSE <<>>)
        ELSE IF ~created THEN <<>>
        ELSE IF burst # <<>> /\ fresh THEN Append(burst, u)
        ELSE IF burst = <<>> /\ Idle THEN <<u>>
        ELSE <<>>

\* burst after any other step that led from the current state to w
BurstAfterEvent(w) == IF ThirdWaits(w, burst) THEN burst ELSE <<>>

\* message PRELOAD_TRACK, for ids and priorities of the given sets
PreloadTrackOf(idSet, prioSet, limit) ==
    \E id \in idSet, priority \in prioSet :
        LET w == PreloadTrackH(World, id, priority) IN
        /\ Len(w.items) <= limit
        /\ Commit(w)
        /\ burst' = BurstAfterTrack(w, id)
        /\ UNCHANGED used

PreloadTrack == PreloadTrackOf({"a", "b"}, {"medium"}, MaxTracks)

\* message CANCEL_PRELOAD
CancelPreload ==
    \E trackId \in Ids :
        LET w == CancelPreloadH(World, trackId) IN
        /\ used.cancels < MaxCancels
        /\ Commit(w)
        /\ burst' = BurstAfterEvent(w)
        /\ used' = [used EXCEPT !.cancels = @ + 1]

\* message CLEAR_CACHE
ClearCache ==
    LET w == ClearCacheH(World) IN
    /\ used.clears < MaxClears
    /\ Commit(w)
    /\ burst' = BurstAfterEvent(w)
    /\ used' = [used EXCEPT !.clears = @ + 1]

\* message INIT
Initialize ==
    \E cfgMax \in ConfigMaxConcurrent :
        LET w == InitializeH(World, cfgMax) IN
        /\ Commit(w)
        /\ burst' = BurstAfterEvent(w)
        /\ UNCHANGED used

\* message SET_NETWORK
SetNetwork ==
    \E type \in NetTypes :
        LET w == SetNetworkInfoH(World, type) IN
        /\ Commit(w)
        /\ burst' = BurstAfterEvent(w)
        /\ UNCHANGED used

\* the fetch, body read and cache.put of a dispatched item all succeed
FetchSucceeds ==
    \E u \in Uids :
        LET w == OnResolved(World, u) IN
        /\ tasks[u] = "fetching"
        /\ Commit(w)
        /\ burst' = BurstAfterEvent(w)
        /\ UNCHANGED used

\* the abort came after the response body was read (during `await caches.open`
\* or `await cache.put`, part_006:300-301): fetchAndCache still returns its result
AbortTooLate ==
    \E u \in Uids :
        LET w == OnResolved(World, u) IN
        /\ tasks[u] = "aborted"
        /\ Commit(w)
        /\ burst' = BurstAfterEvent(w)
        /\ UNCHANGED used

\* the fetch of a dispatched item fails with a transport or HTTP error, at
\* most `limit` times in one behaviour
FetchFailsUpTo(limit) ==
    \E u \in Uids :
        LET w == OnThrown(World, u) IN
        /\ tasks[u] = "fetching"
        /\ used.failures < limit
        /\ Commit(w)
        /\ burst' = BurstAfterEvent(w)
        /\ used' = [used EXCEPT !.failures = @ + 1]

FetchFails == FetchFailsUpTo(MaxFailures)

\* the aborted fetch rejects with AbortError: fetchAndCache returns null
\* (part_006:324-329) and `result.size` at part_006:233 throws a TypeError
\* inside the try block of processQueue
FetchAborts ==
    \E u \in Uids :
        LET w == OnThrown(World, u) IN
        /\ tasks[u] = "aborted"
        /\ Commit(w)
        /\ burst' = BurstAfterEvent(w)
        /\ UNCHANGED used

\* a retry timer fires
RetryTimer ==
    \E u \in timers :
        LET w == OnTimer(World, u) IN
        /\ Commit(w)
        /\ burst' = BurstAfterEvent(w)
        /\ UNCHANGED used

Next ==
    \/ PreloadTrack
    \/ CancelPreload
    \/ ClearCache
    \/ Initialize
    \/ SetNetwork
    \/ FetchSucceeds
    \/ FetchFails
    \/ FetchAborts
    \/ AbortTooLate
    \/ RetryTimer

Spec == Init /\ [][Next]_vars

\* The Preload Queue under a ceiling that stays at its initial value of 2 and
\* a network that answers every fetch that is not aborted: bursts of
\* PRELOAD_TRACK, cancellation and CLEAR_CACHE on up to MaxBurst items.
NextBurst ==
    \/ PreloadTrackOf(Ids, {"medium"}, MaxBurst)
    \/ CancelPreload
    \/ ClearCache
    \/ FetchSucceeds
    \/ FetchAborts
    \/ RetryTimer

SpecBurst == Init /\ [][NextBurst]_vars

\* The Preload Queue with items of every priority under a ceiling that
\* SET_NETWORK moves, without cancellation.
NextRanked ==
    \/ PreloadTrackOf({"a", "b", "c"}, Priorities, MaxRanked)
    \/ FetchSucceeds
    \/ FetchFailsUpTo(MaxRankedFailures)
    \/ RetryTimer

SpecRanked == Init /\ [][NextRanked]_vars

NextNet ==
    \/ PreloadTrackOf({"a", "b", "c"}, {"medium"}, MaxRanked)
    \/ SetNetwork
    \/ FetchSucceeds

SpecNet == Init /\ [][NextNet]_vars


----------------------------------------------------------------------------
(* Claims about the Preload Queue *)

\* the preload fetches actually running: dispatched, not settled, not aborted
Running == {u \in Uids : tasks[u] = "fetching"}

Queued(u) == InQueue(World, u)

FailedNotes(p, u) == {n \in p : n.type = "PRELOAD_FAILED" /\ n.item = u}

\* C1: the in-flight counter and the number of preload fetches actually
\* running never exceed the configured ceiling state.maxConcurrent.
C1_CeilingRespected ==
    /\ state.currentPreloads <= state.maxConcurrent
    /\ Cardinality(Running) <= state.maxConcurrent

\* C2: the in-flight counter is decremented exactly once for every dispatch:
\* not yet while the fetch runs, once when it was cancelled in flight, and
\* still once when the dispatch has ended.
C2_DecrementedOncePerDispatch ==
    \A u \in Uids :
        /\ tasks[u] = "fetching" => decs[u] = 0
        /\ tasks[u] = "aborted" => decs[u] = 1
        /\ (tasks[u] = "none" /\ starts[u] > 0) => decs[u] = 1

InPreloading(u) == u <= Len(items) /\ items[u] # Gone /\ state.preloading[items[u].id] = u

\* C3: at every moment at most one item per id is in state.preloadQueue or
\* state.preloading.
C3_OneItemPerId ==
    \A u, v \in Uids :
        ( /\ u # v
          /\ Queued(u) \/ InPreloading(u)
          /\ Queued(v) \/ InPreloading(v) )
        => items[u].id # items[v].id

\* C4: when the fetch of an item cancelled in flight settles, the item's
\* attempts are not incremented, no retry timer is set for it and no
\* PRELOAD_FAILED is posted for it.
C4_CancelIsNoFailure ==
    [][\A u \in Uids :
          (tasks[u] = "aborted" /\ tasks'[u] = "none")
          => /\ items'[u] = Gone \/ items'[u].attempts = items[u].attempts
             /\ u \notin timers'
             /\ FailedNotes(posted', u) = {}]_vars

\* C5 as claimed: an item that keeps failing is given up after 3 failed
\* fetches, so no fourth fetch is ever started for an item.
C5_NoFourthFetch == \A u \in Uids : starts[u] <= RETRY_ATTEMPTS

\* C5 as amended: PRELOAD_FAILED is posted for an item exactly when a fetch
\* of it throws while attempts = RETRY_ATTEMPTS, which is the end of its
\* fourth fetch (the first attempt and 3 retries); the item is dropped in
\* that step, so it is notified once and never fetched a fifth time.
C5_FailedAfterFourFetches ==
    [][\A u \in Uids :
          /\ starts'[u] <= RETRY_ATTEMPTS + 1
          /\ FailedNotes(posted', u) # {}
             => /\ tasks[u] # "none"
                /\ items[u].attempts = RETRY_ATTEMPTS
                /\ starts[u] = RETRY_ATTEMPTS + 1
                /\ items'[u] = Gone
          /\ ( /\ tasks[u] = "fetching" /\ tasks'[u] = "none"
               /\ used'.failures = used.failures + 1
               /\ items[u].attempts = RETRY_ATTEMPTS )
             => FailedNotes(posted', u) # {}]_vars

C5_Witness ==
    \E u \in Uids : FailedNotes(posted, u) # {} /\ used.failures = RETRY_ATTEMPTS + 1

\* C6: once an item was cancelled after its first failed attempt, no
\* PRELOAD_FAILED is posted for it.
C6_NoFailureAfterCancel ==
    [][\A u \in Uids : cancelledAt[u] >= 1 => FailedNotes(posted', u) = {}]_vars

\* C7: an item that CANCEL_PRELOAD found queued, in flight or waiting for its
\* retry timer is neither queued nor fetched afterwards (a new PRELOAD_TRACK
\* creates a new item).
C7_CancelledStaysOut ==
    \A u \in Uids : cancelledAt[u] >= 0 => ~Queued(u) /\ tasks[u] # "fetching"

\* C8: with maxConcurrent = 2, three back-to-back PRELOAD_TRACK messages for
\* distinct ids that find the Preload Queue empty put the first two items in
\* flight and leave the third queued; the third is dispatched only in a step
\* after which one of the first two is no longer in flight.
C8_TwoInFlightThirdWaits ==
    [][state.maxConcurrent = 2 =>
          /\ (Len(burst) = 2 /\ Len(items') = Len(items) + 1 /\ burst' # <<>>)
             => /\ Len(burst') = 3
                /\ Running' = {burst'[1], burst'[2]}
                /\ state'.preloadQueue = <<burst'[3]>>
          /\ (Len(burst) = 3 /\ starts'[burst[3]] > 0)
             => ~(tasks'[burst[1]] = "fetching" /\ tasks'[burst[2]] = "fetching")]_vars

----------------------------------------------------------------------------
(* Part II: service worker strategies and trimCache *)

CACHE_LIMITS_DYNAMIC == 50
CACHE_LIMITS_MEDIA == 100
CACHE_LIMITS_IMAGES == 200
CACHE_LIMITS_API == 30

\* CACHE_LIMITS by partition; the static partition has no ceiling
Ceiling(p) ==
    CASE p = "dynamic" -> CACHE_LIMITS_DYNAMIC
      [] p = "media"   -> CACHE_LIMITS_MEDIA
      [] p = "images"  -> CACHE_LIMITS_IMAGES
      [] p = "api"     -> CACHE_LIMITS_API

Limited == {"dynamic", "media", "images", "api"}

\* A request: the path patterns of CACHE_STRATEGIES its pathname contains
\* ("/" is contained in every pathname), its destination and mode, whether its
\* pathname is listed in STATIC_RESOURCES, and its URL.
Request(shape, n) ==
    CASE shape = "api"   -> [pats |-> {"/api/", "/"}, destination |-> "", mode |-> "cors",
                             listed |-> FALSE, url |-> <<"api", n>>]
      [] shape = "page"  -> [pats |-> {"/"}, destination |-> "document", mode |-> "navigate",
                             listed |-> FALSE, url |-> <<"page", n>>]
      [] shape = "image" -> [pats |-> {"/images/", "/"}, destination |-> "image", mode |-> "no-cors",
                             listed |-> FALSE, url |-> <<"image", n>>]

MaxUrls(shape) ==
    CASE shape = "api" -> MaxApiUrls [] shape = "page" -> MaxPageUrls [] shape = "image" -> MaxImageUrls

\* CACHE_STRATEGIES in the order Object.entries yields it
CACHE_STRATEGIES ==
    << <<"/api/", "networkFirst">>, <<"/stream/", "cacheFirst">>, <<"/images/", "cacheFirst">>,
       <<"/static/", "cacheFirst">>, <<"/", "staleWhileRevalidate">> >>

\* getStrategyForRequest: first table entry whose pattern the pathname contains
GetStrategyForRequest(r) ==
    LET hits == {k \in 1..Len(CACHE_STRATEGIES) : CACHE_STRATEGIES[k][1] \in r.pats} IN
    IF hits # {}
    THEN CACHE_STRATEGIES[CHOOSE k \in hits : \A j \in hits : k <= j][2]
    ELSE IF r.destination = "image" THEN "cacheFirst"
    ELSE IF r.destination \in {"script", "style"} THEN "staleWhileRevalidate"
    ELSE "networkFirst"

GetCacheForRequest(r) ==
    IF "/api/" \in r.pats THEN "api"
    ELSE IF "/stream/" \in r.pats \/ r.destination \in {"audio", "video"} THEN "media"
    ELSE IF r.destination = "image" THEN "images"
    ELSE IF r.listed THEN "static"
    ELSE "dynamic"

\* the maxItems trimCache picks for a request
TrimMaxItems(r) ==
    IF "/api/" \in r.pats THEN CACHE_LIMITS_API
    ELSE IF r.destination = "image" THEN CACHE_LIMITS_IMAGES
    ELSE IF r.destination \in {"audio", "video"} THEN CACHE_LIMITS_MEDIA
    ELSE CACHE_LIMITS_DYNAMIC

ShouldRefreshCache(r) ==
    IF r.listed THEN FALSE
    ELSE IF "/api/" \in r.pats THEN TRUE
    ELSE FALSE

Without(seq, url) == SelectSeq(seq, LAMBDA k : k # url)

\* cache.match(request) on one partition
StoredIn(p, url) == \E k \in 1..Len(store[p]) : store[p][k] = url

\* caches.match(request): any partition holds the URL
Stored(url) == \E p \in Partitions : \E k \in 1..Len(store[p]) : store[p][k] = url

\* the two entries of STATIC_RESOURCES that getFallbackResponse reads
OfflinePage == <<"offline.html", 0>>
Placeholder == <<"placeholder.jpg", 0>>

\* getFallbackResponse(request), with the value its caches.match resolves to:
\* part_005:644-681
GetFallbackResponse(r) ==
    IF r.mode = "navigate"
    THEN (IF Stored(OfflinePage) THEN "offline.html" ELSE "undefined")
    ELSE IF r.destination = "image"
    THEN (IF Stored(Placeholder) THEN "placeholder.jpg" ELSE "undefined")
    ELSE IF "/api/" \in r.pats THEN "503 json"
    ELSE "503 text"

\* a strategy execution is finished when its handler has returned, its
\* cache.put, if it issued one, has been committed, and no network response
\* of it is outstanding
Finished(h) == h.pc = "done" /\ h.put # "pending" /\ ~h.late

\* replace execution h by h2; a finished execution leaves `open`
Step(h, h2) ==
    /\ open' = (open \ {h}) \cup (IF Finished(h2) THEN {} ELSE {h2})
    /\ ended' = IF Finished(h2) THEN {h2} ELSE {}

\* the number of the newest stored URL of a shape, 0 if none is stored; a URL
\* that was never stored is named by the next number
Newest(shape) ==
    LET all == UNION {{store[p][k] : k \in 1..Len(store[p])} : p \in Partitions}
        ns == {0} \cup {url[2] : url \in {x \in all : x[1] = shape}}
    IN  CHOOSE n \in ns : \A m \in ns : m <= n

\* the value the strategy resolves to, unless it has resolved already
Settle(h, response) == IF h.result = "pending" THEN [h EXCEPT !.result = response] ELSE h

\* the fetch listener for a GET request r: part_005:221-257
Respond(r) ==
    LET strategy == GetStrategyForRequest(r) IN
    /\ Cardinality(open) < MaxOpen
    /\ \A h \in open : h.req.url # r.url
    /\ open' = open \cup
           {[req |-> r, strategy |-> strategy, cache |-> GetCacheForRequest(r),
             pc |-> IF strategy = "networkFirst" THEN "race" ELSE "match",
             put |-> "none", del |-> <<>>,
             result |-> "pending", net |-> "none", late |-> FALSE]}
    /\ ended' = {}
    /\ UNCHANGED <<store, aged, classified, wvars, pvars, hvars, cvars, mvars>>

\* cacheFirst after `await caches.match`: part_005:379-389
CacheFirstAfterMatch(h, cached) ==
    IF cached
    THEN IF ShouldRefreshCache(h.req)
         THEN [h EXCEPT !.result = "cached", !.strategy = "refreshCacheInBackground",
                        !.pc = "fetch"]
         ELSE [h EXCEPT !.result = "cached", !.pc = "done"]
    ELSE [h EXCEPT !.pc = "fetch"]

\* mutant of StaleAfterMatch: no revalidation when an entry was found
StaleAfterMatchHitOnly(h, cached) ==
    IF cached THEN [h EXCEPT !.result = "cached", !.pc = "done"]
    ELSE [h EXCEPT !.pc = "fetch"]

\* staleWhileRevalidate after `await cache.match`: part_005:451-462; the
\* fetch is issued whether or not an entry was found, and `cached || fetchPromise`
\* is returned
StaleAfterMatch(h, cached) ==
    IF cached THEN [h EXCEPT !.result = "cached", !.pc = "fetch"]
    ELSE [h EXCEPT !.pc = "fetch"]

\* mutant of NetworkFirstOk: the response is returned without cache.put
NetworkFirstOkNoPut(h) == [h EXCEPT !.net = "ok", !.pc = "keys"]

\* networkFirst after an ok response won the race: cache.put is issued without
\* await and trimCache runs up to `await cache.keys()` (part_005:419-424, 616-628)
NetworkFirstOk(h) == [h EXCEPT !.net = "ok", !.put = "pending", !.pc = "keys"]

\* an ok response: part_005:391-396 (cacheFirst), 455-458 (staleWhileRevalidate),
\* 584-587 (refreshCacheInBackground)
FetchOk(h) ==
    IF h.strategy = "networkFirst" THEN NetworkFirstOk(h)
    ELSE Settle([h EXCEPT !.net = "ok", !.put = "pending", !.pc = "done"], "network")

\* a response that is not ok is returned as it is and nothing is written
FetchNotOk(h) == Settle([h EXCEPT !.net = "notok", !.pc = "done"], "notok")

\* fetch rejects: networkFirst enters its inner catch (part_005:428-430),
\* cacheFirst returns the fallback (part_005:397-400), the promise returned by
\* staleWhileRevalidate rejects outside its try block (part_005:454-462),
\* refreshCacheInBackground swallows the error (part_005:589-592)
FetchRejects(h) ==
    CASE h.strategy = "networkFirst" -> [h EXCEPT !.net = "failed", !.pc = "catch"]
      [] h.strategy = "cacheFirst" ->
            Settle([h EXCEPT !.net = "failed", !.pc = "done"], GetFallbackResponse(h.req))
      [] h.strategy = "staleWhileRevalidate" ->
            Settle([h EXCEPT !.net = "failed", !.pc = "done"], "rejected")
      [] OTHER -> [h EXCEPT !.net = "failed", !.pc = "done"]

\* the timeout promise of networkFirst rejects first: part_005:412-417, 428-430
NetworkFirstTimeout(h) == [h EXCEPT !.net = "timeout", !.late = TRUE, !.pc = "catch"]

\* networkFirst's catch after `await caches.match`: part_005:430-441
NetworkFirstCatch(h, cached) ==
    [h EXCEPT !.pc = "done",
              !.result = IF cached THEN "cached" ELSE GetFallbackResponse(h.req)]

\* mutant of OnLateResponse: the late response becomes the result
OnLateResponseAdopted(h) == [h EXCEPT !.late = FALSE, !.result = "network"]

\* the network promise settles after the timeout won the race: nobody reads it
OnLateResponse(h) == [h EXCEPT !.late = FALSE]

\* trimCache returns to networkFirst, which returns the response: part_005:424-427
TrimReturns(h) == [h EXCEPT !.pc = "done", !.result = "network"]

\* a fetch event for a GET request, for the newest stored URL of its shape or
\* for a URL not stored so far
FetchEvent ==
    \E shape \in Shapes : \E n \in {Newest(shape), Newest(shape) + 1} :
        /\ n >= 1
        /\ n <= MaxUrls(shape)
        /\ Respond(Request(shape, n))

\* a fetch event for one of a few URLs of each shape
FetchEventFew ==
    \E shape \in Shapes : \E n \in 1..MaxFewUrls :
        Respond(Request(shape, n))

\* the install listener precaches STATIC_RESOURCES (part_005:182-200); a failed
\* cache.addAll stores nothing and is swallowed by the catch
Install ==
    /\ ~Stored(OfflinePage)
    /\ store' = [store EXCEPT !["static"] = @ \o <<Placeholder, OfflinePage>>]
    /\ ended' = {}
    /\ UNCHANGED <<open, aged, classified, wvars, pvars, hvars, cvars, mvars>>

\* cacheFirst after `await caches.match`
CacheFirstLookup ==
    \E h \in open :
        /\ h.strategy = "cacheFirst" /\ h.pc = "match"
        /\ Step(h, CacheFirstAfterMatch(h, Stored(h.req.url)))
        /\ UNCHANGED <<store, aged, classified, wvars, pvars, hvars, cvars, mvars>>

\* staleWhileRevalidate after `await cache.match`
StaleLookup ==
    \E h \in open :
        /\ h.strategy = "staleWhileRevalidate" /\ h.pc = "match"
        /\ Step(h, StaleAfterMatch(h, StoredIn(h.cache, h.req.url)))
        /\ UNCHANGED <<store, aged, classified, wvars, pvars, hvars, cvars, mvars>>

\* the network answers with an ok response
NetworkOk ==
    \E h \in open :
        /\ h.pc \in {"race", "fetch"}
        /\ Step(h, FetchOk(h))
        /\ UNCHANGED <<store, aged, classified, wvars, pvars, hvars, cvars, mvars>>

\* the network answers with a response that is not ok
NetworkNotOk ==
    \E h \in open :
        /\ h.pc \in {"race", "fetch"}
        /\ Step(h, FetchNotOk(h))
        /\ UNCHANGED <<store, aged, classified, wvars, pvars, hvars, cvars, mvars>>

\* the fetch rejects with a transport error
NetworkFails ==
    \E h \in open :
        /\ h.pc \in {"race", "fetch"}
        /\ Step(h, FetchRejects(h))
        /\ UNCHANGED <<store, aged, classified, wvars, pvars, hvars, cvars, mvars>>

\* the timeout timer of networkFirst fires before the network answers
TimeoutFires ==
    \E h \in open :
        /\ h.strategy = "networkFirst" /\ h.pc = "race"
        /\ Step(h, NetworkFirstTimeout(h))
        /\ UNCHANGED <<store, aged, classified, wvars, pvars, hvars, cvars, mvars>>

\* the network answers after the timeout fired
LateResponse ==
    \E h \in open :
        /\ h.late
        /\ Step(h, OnLateResponse(h))
        /\ UNCHANGED <<store, aged, classified, wvars, pvars, hvars, cvars, mvars>>

\* networkFirst's catch after `await caches.match`
FallbackLookup ==
    \E h \in open :
        /\ h.pc = "catch"
        /\ Step(h, NetworkFirstCatch(h, Stored(h.req.url)))
        /\ UNCHANGED <<store, aged, classified, wvars, pvars, hvars, cvars, mvars>>

\* a cache.put issued earlier is committed: the entry for the URL is replaced
\* by a new one
PutCommits ==
    \E h \in open :
        /\ h.put = "pending"
        /\ store' = [store EXCEPT ![h.cache] = Append(Without(@, h.req.url), h.req.url)]
        /\ aged' = aged \ {h.req.url}
        /\ Step(h, [h EXCEPT !.put = "committed"])
        /\ UNCHANGED <<classified, wvars, pvars, hvars, cvars, mvars>>

\* trimCache after `await cache.keys()`: part_005:628-631
TrimReadKeys ==
    \E h \in open :
        /\ h.pc = "keys"
        /\ LET keys == store[h.cache]
               maxItems == TrimMaxItems(h.req)
           IN  IF Len(keys) > maxItems
               THEN Step(h, [h EXCEPT !.pc = "delete",
                                    !.del = SubSeq(keys, 1, Len(keys) - maxItems)])
               ELSE Step(h, TrimReturns(h))
        /\ UNCHANGED <<store, aged, classified, wvars, pvars, hvars, cvars, mvars>>

\* one `await cache.delete(key)` of the trimCache loop: part_005:633-635
TrimDelete ==
    \E h \in open :
        /\ h.pc = "delete"
        /\ store' = [store EXCEPT ![h.cache] = Without(@, Head(h.del))]
        /\ aged' = aged \ {Head(h.del)}
        /\ Step(h, IF Tail(h.del) = <<>> THEN TrimReturns([h EXCEPT !.del = <<>>])
                   ELSE [h EXCEPT !.del = Tail(@)])
        /\ UNCHANGED <<classified, wvars, pvars, hvars, cvars, mvars>>

\* the age of a stored entry passes the TTL of its partition (CACHE_EXPIRATION,
\* part_005:167-173)
TimePasses ==
    \E p \in Partitions : \E k \in 1..Len(store[p]) :
        /\ store[p][k] \notin aged
        /\ aged' = aged \cup {store[p][k]}
        /\ ended' = {}
        /\ UNCHANGED <<store, open, classified, wvars, pvars, hvars, cvars, mvars>>

\* a network that answers ok or not at all, and a store that can fill up
NextSW ==
    \/ FetchEvent
    \/ CacheFirstLookup
    \/ StaleLookup
    \/ NetworkOk
    \/ NetworkFails
    \/ FallbackLookup
    \/ PutCommits
    \/ TrimReadKeys
    \/ TrimDelete

SpecSW == Init /\ [][NextSW]_vars

\* every network outcome, on a few URLs
NextStrat ==
    \/ FetchEventFew
    \/ Install
    \/ CacheFirstLookup
    \/ StaleLookup
    \/ NetworkOk
    \/ NetworkNotOk
    \/ NetworkFails
    \/ TimeoutFires
    \/ LateResponse
    \/ FallbackLookup
    \/ PutCommits
    \/ TrimReadKeys

SpecStrat == Init /\ [][NextStrat]_vars

\* the same, with stored entries that outlive their TTL
NextTTL ==
    \/ NextStrat
    \/ TimePasses

SpecTTL == Init /\ [][NextTTL]_vars

----------------------------------------------------------------------------
(* Claims about the Tiered Store *)

\* C9: when a write-then-trim cycle of networkFirst has finished (trimCache
\* returned and the cache.put is committed), the partition it wrote holds at
\* most its maxItems entries.
C9_WithinCeilingAfterCycle ==
    \A h \in ended :
        (h.strategy = "networkFirst" /\ h.put = "committed" /\ h.cache \in Limited)
        => Len(store[h.cache]) <= Ceiling(h.cache)

\* C10: every write by cacheFirst, refreshCacheInBackground or
\* staleWhileRevalidate is followed by a trim, so that once the write is
\* finished the partition it wrote holds at most its maxItems entries.
C10_WithinCeilingAfterAnyWrite ==
    \A h \in ended :
        (h.strategy # "networkFirst" /\ h.put = "committed" /\ h.cache \in Limited)
        => Len(store[h.cache]) <= Ceiling(h.cache)

----------------------------------------------------------------------------
(* The Request Classifier on its own: getStrategyForRequest applied to any request *)

SpecificPatterns == {"/api/", "/stream/", "/images/", "/static/"}
Destinations == {"", "document", "image", "script", "style", "audio", "video"}

\* getStrategyForRequest(request) for a request of any pathname and destination
Classify ==
    \E specific \in SUBSET SpecificPatterns : \E destination \in Destinations :
        LET r == [pats |-> specific \cup {"/"}, destination |-> destination] IN
        /\ classified' = <<specific, destination, GetStrategyForRequest(r)>>
        /\ UNCHANGED <<store, open, ended, aged, wvars, pvars, hvars, cvars, mvars>>

NextClassify == Classify

SpecClassify == Init /\ [][NextClassify]_vars

----------------------------------------------------------------------------
(* Claims about the Strategy Executor *)

\* the execution for the same request after a step
After(h) == {h2 \in open' \cup ended' : h2.req.url = h.req.url}

\* C11: every strategy execution resolves to a defined response object: its
\* result is never undefined and its promise never rejects.
C11_AlwaysAResponse ==
    \A h \in open \cup ended : h.result \notin {"undefined", "rejected"}

\* C12: once the timeout of networkFirst has fired, the result is the stored
\* entry if there is one at the lookup and the fallback otherwise; the lookup
\* can run while the network response is outstanding, and the late response
\* never becomes or changes the result.
C12_TimeoutDoesNotWait ==
    [][\A h \in open : h.net = "timeout" =>
          /\ (h.late /\ h.pc = "catch") => ENABLED FallbackLookup
          /\ \A h2 \in After(h) :
                /\ h2.result \notin {"network", "notok"}
                /\ (h.pc = "catch" /\ h2.pc = "done")
                   => h2.result = IF Stored(h.req.url) THEN "cached"
                                  ELSE GetFallbackResponse(h.req)
                /\ h.pc = "done" => h2.result = h.result]_vars

C12_Witness ==
    \E h \in open : h.net = "timeout" /\ h.late /\ h.pc = "done" /\ h.result = "cached"

\* C13: networkFirst issues cache.put for an ok response that won the race and
\* returns that response, with the put committed when the execution is
\* finished; after a rejected fetch or a timeout nothing is written and the
\* result is the stored entry if there is one, the class-specific fallback
\* otherwise.
C13_NetworkFirstResult ==
    [][\A h \in open : h.strategy = "networkFirst" =>
          \A h2 \in After(h) :
             /\ (h.pc = "race" /\ h2.net = "ok") => h2.put = "pending"
             /\ (h2.pc = "done" /\ h2.net = "ok") => h2.result = "network"
             /\ (h2 \in ended' /\ h2.net = "ok") => h2.put = "committed"
             /\ (h.pc = "catch" /\ h2.pc = "done")
                => /\ h.net \in {"failed", "timeout"}
                   /\ h2.put = "none"
                   /\ h2.result = IF Stored(h.req.url) THEN "cached"
                                  ELSE GetFallbackResponse(h.req)]_vars

C13_Witness ==
    \E h \in ended : h.strategy = "networkFirst" /\ h.net = "failed" /\ h.result = "cached"

\* C14: a cacheFirst execution that returns a stored entry starts a background
\* refresh, for every request served cache-first.
C14_CacheHitRefreshes ==
    \A h \in open \cup ended :
        (GetStrategyForRequest(h.req) = "cacheFirst" /\ h.result = "cached")
        => h.strategy = "refreshCacheInBackground"

\* C15: staleWhileRevalidate returns the stored entry of the request's
\* partition at once if there is one, issues the fetch on every call, replaces
\* the stored entry when the fetch answers ok, and without a stored entry
\* resolves to whatever the fetch resolves to.
C15_StaleWhileRevalidate ==
    [][\A h \in open : h.strategy = "staleWhileRevalidate" =>
          \A h2 \in After(h) : h2 # h =>
             /\ h.pc = "match"
                => /\ h2.pc = "fetch"
                   /\ h2.result = IF StoredIn(h.cache, h.req.url) THEN "cached" ELSE "pending"
             /\ h.pc = "fetch"
                => /\ h2.pc = "done"
                   /\ h2.put = IF h2.net = "ok" THEN "pending" ELSE "none"
                   /\ h2.result = IF h.result = "cached" THEN "cached"
                                  ELSE CASE h2.net = "ok" -> "network"
                                         [] h2.net = "notok" -> "notok"
                                         [] h2.net = "failed" -> "rejected"
             /\ (h.put = "pending" /\ h2.put = "committed")
                => /\ store'[h.cache] = Append(Without(store[h.cache], h.req.url), h.req.url)
                   /\ h.req.url \notin aged']_vars

C15_Witness ==
    \E h \in ended : /\ h.strategy = "staleWhileRevalidate"
                     /\ h.result = "cached" /\ h.put = "committed"

\* C16: networkFirst's fallback read and staleWhileRevalidate never return a
\* stored entry that is older than the TTL of its partition.
C16_ExpiredIsAbsent ==
    [][\A h \in open : \A h2 \in After(h) :
          ( /\ h.strategy \in {"networkFirst", "staleWhileRevalidate"}
            /\ h.result = "pending" /\ h2.result = "cached" )
          => h.req.url \notin aged]_vars

\* the kind-based default of the Request Classifier
KindDefault(destination) ==
    IF destination = "image" THEN "cacheFirst"
    ELSE IF destination \in {"script", "style"} THEN "staleWhileRevalidate"
    ELSE "networkFirst"

\* C17: a request whose pathname contains none of /api/, /stream/, /images/,
\* /static/ gets the strategy of its declared kind.
C17_KindDefaultApplies ==
    (classified # <<>> /\ classified[1] = {}) => classified[3] = KindDefault(classified[2])

----------------------------------------------------------------------------
(* Claims about dispatch order and work conservation *)

\* item u is popped from the queue and dispatched in this step
Dispatched(u) == starts'[u] = starts[u] + 1

InSeq(seq, x) == \E k \in 1..Len(seq) : seq[k] = x

Pos(seq, x) == CHOOSE k \in 1..Len(seq) : seq[k] = x

\* the items that entered the queue before u did and are still queued after
\* the step that dispatched u (an item that enters the queue in the same step
\* is not in fifo)
EarlierStillQueued(u) ==
    {v \in Uids : /\ InSeq(fifo, v) /\ InSeq(fifo', v)
                  /\ InSeq(fifo, u) => Pos(fifo, v) < Pos(fifo, u)}

\* C18: no medium- or low-priority item is dispatched while a high-priority
\* item is in the queue, also when the high-priority item re-entered the queue
\* after a failure.
C18_HighBeforeOthers ==
    [][\A u \in Uids :
          (Dispatched(u) /\ items'[u].priority # "high")
          => \A k \in 1..Len(state'.preloadQueue) :
                items'[state'.preloadQueue[k]].priority # "high"]_vars

\* C19: an item is dispatched only when no item of the same priority that
\* entered the queue before it is still queued.
C19_FifoWithinPriority ==
    [][\A u \in Uids :
          Dispatched(u)
          => \A v \in EarlierStillQueued(u) : items'[v].priority # items'[u].priority]_vars

\* C20: between handlers either the queue is empty or the in-flight counter
\* has reached state.maxConcurrent.
C20_WorkConserving ==
    state.preloadQueue = <<>> \/ state.currentPreloads >= state.maxConcurrent

----------------------------------------------------------------------------
(* Actions of the Prefetch Scheduler *)

CommitPrefetch(p) ==
    /\ prefetch' = p.prefetch
    /\ calls' = p.calls
    /\ begun' = p.begun

Having(q, priority) == Cardinality({k \in 1..Len(q) : q[k].priority = priority})

\* the size of the smaller of the two groups, high and low, that the queue
\* would hold with one more candidate of the given priority
Mix(q, priority) ==
    Smaller(Having(q, "high") + (IF priority = "high" THEN 1 ELSE 0),
            Having(q, "low") + (IF priority = "low" THEN 1 ELSE 0))

\* handleHover / handleFocus / handleIntersection / predictNextView call
\* addToQueue, at most `limit` times in one behaviour and while the smaller
\* of the high and low groups of the queue has at most `mix` candidates
AddToQueueOf(urlSet, prioSet, limit, mix) ==
    \E url \in urlSet, priority \in prioSet :
        /\ now < limit
        /\ Mix(prefetch.prefetchQueue, priority) <= mix
        /\ CommitPrefetch(AddToQueueH(PWorld, url, priority, now))
        /\ now' = now + 1
        /\ UNCHANGED <<wvars, swvars, hvars, cvars, mvars>>

\* three /api/ URLs and one image
PrefetchUrls == {Url(TRUE, "", 1), Url(TRUE, "", 2), Url(TRUE, "", 3), Url(FALSE, "jpg", 4)}

AddToQueue == AddToQueueOf(PrefetchUrls, {"medium"}, MaxAdds, MaxAdds)

\* the image loaded or the API answered with an ok status
PrefetchLoads ==
    \E url \in BagToSet(calls) :
        /\ CommitPrefetch(OnPrefetched(PWorld, url))
        /\ UNCHANGED <<now, wvars, swvars, hvars, cvars, mvars>>

\* the image failed to load, the API fetch rejected or its status was not ok
PrefetchFails ==
    \E url \in BagToSet(calls) :
        /\ CommitPrefetch(OnPrefetchFailed(PWorld, url))
        /\ UNCHANGED <<now, wvars, swvars, hvars, cvars, mvars>>

\* navigator.connection fires `change`
ConnectionChange ==
    \E effectiveType \in EffectiveTypes, saveData \in BOOLEAN :
        /\ CommitPrefetch(OnConnectionChange(PWorld, effectiveType, saveData))
        /\ observed' = [observed EXCEPT !.prefetch = TRUE]
        /\ UNCHANGED <<now, wvars, swvars, handled, precached, cvars, mvars>>

\* The Prefetch Scheduler under the configuration of its constructor.
NextPrefetch ==
    \/ AddToQueue
    \/ PrefetchLoads
    \/ PrefetchFails

SpecPrefetch == Init /\ [][NextPrefetch]_vars

\* The Prefetch Scheduler under a connection that changes: an audio URL, an
\* /api/ URL and an image.
AdaptUrls == {Url(FALSE, "mp3", 1), Url(TRUE, "", 2), Url(FALSE, "jpg", 3)}

NextAdapt ==
    \/ AddToQueueOf(AdaptUrls, {"medium"}, MaxAdaptAdds, MaxAdaptAdds)
    \/ PrefetchLoads
    \/ ConnectionChange

SpecAdapt == Init /\ [][NextAdapt]_vars

\* message SET_NETWORK whose data carries the connection type and the
\* data-saver flag; setNetworkInfo reads info.type only
NetworkSignal ==
    \E type \in NetTypes, saveData \in BOOLEAN :
        LET w == SetNetworkInfoH(World, type) IN
        /\ CommitWorker(w)
        /\ burst' = BurstAfterEvent(w)
        /\ observed' = [observed EXCEPT !.worker = <<[type |-> type, saveData |-> saveData]>>]
        /\ UNCHANGED <<used, swvars, pvars, handled, precached, cvars, mvars>>

\* The Network Monitor: connectivity signals reach the Preload Queue and the
\* Prefetch Scheduler while both have work in flight.
NextMonitor ==
    \/ PreloadTrackOf({"a", "b"}, {"medium"}, MaxMonitorTracks)
    \/ FetchSucceeds
    \/ NetworkSignal
    \/ AddToQueueOf({Url(TRUE, "", 1), Url(TRUE, "", 2)}, {"medium"}, MaxMonitorAdds, MaxMonitorAdds)
    \/ PrefetchLoads
    \/ ConnectionChange

SpecMonitor == Init /\ [][NextMonitor]_vars

\* The Prefetch Scheduler filling up: every candidate is a new /api/ URL of
\* high or low priority and the two fetches in flight stay unanswered.
NextFill == AddToQueueOf({Url(TRUE, "", now)}, {"high", "low"}, MaxFill, MaxMix)

SpecFill == Init /\ [][NextFill]_vars

----------------------------------------------------------------------------
(* Claims about the Prefetch Scheduler *)

\* C23: the prefetch queue never holds two items with the same URL.
C23_NoDuplicateUrlQueued ==
    \A j, k \in 1..Len(prefetch.prefetchQueue) :
        prefetch.prefetchQueue[j].url = prefetch.prefetchQueue[k].url => j = k

\* C24: the number of prefetchResource calls running at once never exceeds
\* config.maxConcurrent.
C24_RunningWithinCeiling ==
    BagCardinality(calls) <= prefetch.config.maxConcurrent

Candidates(q) == {q[k] : k \in 1..Len(q)}

\* C25: the queue never holds more than maxQueueSize candidates; an
\* addToQueue that finds the queue at capacity drops no candidate of a higher
\* priority than one it keeps, and when the new candidate is of high priority
\* and a low one is queued, a low one is dropped.
C25_CapacityDropsLowest ==
    [][LET q == prefetch.prefetchQueue
           q2 == prefetch'.prefetchQueue
           kept == Candidates(q) \cap Candidates(q2)
           dropped == Candidates(q) \ Candidates(q2)
           new == Candidates(q2) \ Candidates(q)
       IN  /\ Len(q2) <= maxQueueSize
           /\ (Len(q) = maxQueueSize /\ new # {}) =>
                 /\ \A d \in dropped, k \in kept :
                        priorityOrder[d.priority] >= priorityOrder[k.priority]
                 /\ ((\E c \in new : c.priority = "high")
                        /\ (\E x \in Candidates(q) : x.priority = "low"))
                     => \E d \in dropped : d.priority = "low"]_vars

\* a high-priority candidate has just been inserted into a queue that was at
\* capacity and still holds a low one
C25_Witness ==
    /\ now > maxQueueSize + PrefetchMaxConcurrent
    /\ Len(prefetch.prefetchQueue) = maxQueueSize - 5 + 1
    /\ prefetch.prefetchQueue[1].priority = "high"
    /\ prefetch.prefetchQueue[1].timestamp = now - 1
    /\ Having(prefetch.prefetchQueue, "high") > 1
    /\ Having(prefetch.prefetchQueue, "low") > 0

----------------------------------------------------------------------------
(* Claims about the Network Monitor *)

\* the ceiling prescribed for a connectivity class and data-saver flag
CeilingFor(type, saveData) ==
    IF saveData \/ type \in {"2g", "slow-2g"} THEN 1
    ELSE IF type = "3g" THEN 2
    ELSE 3

\* C26: after a connectivity signal the ceiling of the Preload Queue and the
\* ceiling of the Prefetch Scheduler equal 1 under 2g-or-worse or data-saver,
\* 2 under 3g, and 3 under 4g-or-better without data-saver.
C26_CeilingFollowsConnectivity ==
    /\ observed.worker # <<>> =>
          state.maxConcurrent =
              CeilingFor(observed.worker[1].type, observed.worker[1].saveData)
    /\ observed.prefetch =>
          prefetch.config.maxConcurrent =
              CeilingFor(prefetch.networkInfo.effectiveType, prefetch.networkInfo.saveData)

\* C27: a step that lowers a ceiling leaves the operations in flight, the
\* queue and the in-flight counter as they were, and every dispatch leaves
\* the in-flight count within the ceiling then in force.
C27_LoweringCancelsNothing ==
    [][/\ state'.maxConcurrent < state.maxConcurrent =>
            /\ state'.preloadQueue = state.preloadQueue
            /\ state'.preloading = state.preloading
            /\ state'.currentPreloads = state.currentPreloads
            /\ UNCHANGED <<items, tasks, timers, starts>>
       /\ prefetch'.config.maxConcurrent < prefetch.config.maxConcurrent =>
            /\ prefetch'.prefetchQueue = prefetch.prefetchQueue
            /\ prefetch'.prefetching = prefetch.prefetching
            /\ UNCHANGED calls
       /\ (\E u \in Uids : starts'[u] > starts[u]) =>
            state'.currentPreloads <= state'.maxConcurrent
       /\ (calls' # calls /\ begun' # {}) =>
            Cardinality(prefetch'.prefetching) <= prefetch'.config.maxConcurrent]_vars

\* both ceilings were lowered below the number of operations in flight,
\* which are still running
C27_Witness ==
    /\ Cardinality(Running) > state.maxConcurrent
    /\ state.currentPreloads > state.maxConcurrent
    /\ BagCardinality(calls) > prefetch.config.maxConcurrent

\* C28: config.resourceTypes.audio is true, and an audio resource is fetched,
\* only while the last observed connection is 4g without data-saver.
C28_AudioOnlyOnFast ==
    LET fast == /\ prefetch.networkInfo.effectiveType = "4g"
                /\ ~prefetch.networkInfo.saveData
    IN  /\ prefetch.config.resourceTypes.audio => fast
        /\ \A url \in begun : DetectResourceType(url) = "audio" => fast

\* an audio resource has just been fetched
C28_Witness ==
    \E url \in begun : DetectResourceType(url) = "audio" /\ url \in prefetch.prefetched

----------------------------------------------------------------------------
(* The Preload Queue in front of a transport that does not answer *)

\* the signal fetchWithTimeout hands to fetch: `options.signal ||
\* controller.signal`, part_006:346; "timeout" is the signal of the
\* controller that the timer of part_006:341 aborts
FetchSignal(optionsSignal) ==
    IF optionsSignal # "undefined" THEN optionsSignal ELSE "timeout"

\* the timer of fetchWithTimeout fires while the fetch of item u is pending
\* (part_006:339-341); fetchAndCache passed the signal of the controller
\* stored in state.preloading (part_006:280-285)
OnFetchTimeout(w, u) ==
    IF FetchSignal("preloadInfo.controller") = "timeout"
    THEN [w EXCEPT !.tasks[u] = "aborted"]
    ELSE [w EXCEPT !.tasks[u] = "overdue"]

\* the transport of a dispatched item goes silent: it will neither answer nor fail
FetchHangs ==
    \E u \in Uids :
        LET w == [World EXCEPT !.tasks[u] = "hung"] IN
        /\ tasks[u] = "fetching"
        /\ Commit(w)
        /\ burst' = BurstAfterEvent(w)
        /\ UNCHANGED used

\* CONFIG.TIMEOUT has elapsed on a fetch that the transport left unanswered
TimeoutElapses ==
    \E u \in Uids :
        LET w == OnFetchTimeout(World, u) IN
        /\ tasks[u] = "hung"
        /\ Commit(w)
        /\ burst' = BurstAfterEvent(w)
        /\ UNCHANGED used

NextHang ==
    \/ PreloadTrackOf({"a", "b", "c"}, {"medium"}, MaxHangTracks)
    \/ FetchSucceeds
    \/ FetchHangs
    \/ TimeoutElapses

SpecHang == Init /\ [][NextHang]_vars

\* C21: once CONFIG.TIMEOUT has elapsed on a preload whose transport never
\* answers, the fetch is aborted and the item is no longer in flight: no item
\* holds a slot with its timeout behind it.
C21_TimeoutEndsHungFetch ==
    \A u \in Uids : tasks[u] # "overdue"

----------------------------------------------------------------------------
(* The life cycle of a queueItem *)

\* queued: in state.preloadQueue or waiting for its retry delay; in-flight:
\* its fetch is running; removed: a CANCEL_PRELOAD found it and nothing has
\* brought it back; absent: not created yet, or completed, failed or dropped
ItemStatus(u) ==
    IF Queued(u) THEN "queued"
    ELSE IF tasks[u] = "fetching" THEN "in-flight"
    ELSE IF cancelledAt[u] >= 0 THEN "removed"
    ELSE IF u \in timers THEN "queued"
    ELSE "absent"

\* C22: a queueItem only goes from queued to in-flight, from in-flight to
\* completed or failed, from in-flight back to queued with attempts
\* incremented by exactly 1, and from queued or in-flight to removed by a
\* cancel; an item that is created enters as queued or in-flight, and a
\* removed item never becomes queued or in-flight again.
C22_OnlyLifecycleTransitions ==
    [][\A u \in Uids :
          LET a == ItemStatus(u)
              b == ItemStatus(u)'
          IN  \/ a = b
              \/ a = "absent" /\ b \in {"queued", "in-flight"} /\ u = Len(items) + 1
              \/ a = "queued" /\ b = "in-flight"
              \/ a = "in-flight" /\ b = "absent"
              \/ /\ a = "in-flight" /\ b = "queued"
                 /\ items'[u].attempts = items[u].attempts + 1
              \/ a \in {"queued", "in-flight"} /\ b = "removed"
              \/ a = "removed" /\ b = "absent"]_vars

----------------------------------------------------------------------------
(* The message listener of the media worker: part_006:38-111 *)

MessageTypes ==
    {"INIT", "PRELOAD_TRACK", "PRELOAD_BATCH", "CANCEL_PRELOAD", "CLEAR_CACHE",
     "GET_STATUS", "SET_QUALITY", "SET_NETWORK", "PROCESS_AUDIO", "ANALYZE_AUDIO",
     "GENERATE_WAVEFORM"}

\* the data a message of each type carries when it is well formed; <<>> is a
\* message without data
DataOf(type) ==
    CASE type = "INIT" -> {<<cfgMax>> : cfgMax \in ConfigMaxConcurrent}
      [] type \in {"PRELOAD_TRACK", "CANCEL_PRELOAD"} -> {<<id>> : id \in {"a", "b"}}
      [] type = "PRELOAD_BATCH" -> {<<<<"a", "b">>>>}
      [] type = "SET_NETWORK" -> {<<t>> : t \in NetTypes}
      [] OTHER -> {<<"data">>}

RECURSIVE PreloadBatchH(_, _)

\* preloadBatch(tracks): part_006:188-197
PreloadBatchH(w, tracks) ==
    IF tracks = <<>> THEN w
    ELSE PreloadBatchH(PreloadTrackH(w, Head(tracks), "medium"), Tail(tracks))

\* what the switch of the listener leaves behind: the worker, whether the
\* selected case threw, and whether its result can be cloned by postMessage
Ran(w, thrown, cloneable) == [w |-> w, thrown |-> thrown, cloneable |-> cloneable]

\* the switch statement: part_006:44-91. A case that reads a property of an
\* absent `data` throws a TypeError; the result of INIT holds `state`, whose
\* preloading Map holds an AbortController per entry (part_006:142-146, 220-224)
Switch(w, msg) ==
    LET absent == msg.data = <<>> IN
    CASE msg.type = "INIT" ->
            IF absent THEN Ran(w, TRUE, TRUE)
            ELSE Ran(InitializeH(w, msg.data[1]), FALSE,
                     \A i \in Ids : w.state.preloading[i] = 0)
      [] msg.type = "PRELOAD_TRACK" ->
            IF absent THEN Ran(w, TRUE, TRUE)
            ELSE Ran(PreloadTrackH(w, msg.data[1], "medium"), FALSE, TRUE)
      [] msg.type = "PRELOAD_BATCH" ->
            IF absent THEN Ran(w, TRUE, TRUE)
            ELSE Ran(PreloadBatchH(w, msg.data[1]), FALSE, TRUE)
      [] msg.type = "CANCEL_PRELOAD" ->
            IF absent THEN Ran(w, TRUE, TRUE)
            ELSE Ran(CancelPreloadH(w, msg.data[1]), FALSE, TRUE)
      [] msg.type = "CLEAR_CACHE" -> Ran(ClearCacheH(w), FALSE, TRUE)
      [] msg.type = "GET_STATUS" -> Ran(w, FALSE, TRUE)
      [] msg.type = "SET_NETWORK" ->
            IF absent THEN Ran(w, TRUE, TRUE)
            ELSE Ran(SetNetworkInfoH(w, msg.data[1]), FALSE, TRUE)
      [] msg.type \in {"SET_QUALITY", "PROCESS_AUDIO", "ANALYZE_AUDIO", "GENERATE_WAVEFORM"} ->
            Ran(w, absent, TRUE)
      [] OTHER -> Ran(w, TRUE, TRUE)

Response(type, id) == [type |-> type, id |-> id]

\* mutant of Listener: the catch block posts nothing
ListenerSilentCatch(w, msg) ==
    LET ran == Switch(w, msg) IN
    IF ran.thrown \/ ~ran.cloneable
    THEN [w |-> ran.w, responses |-> <<>>]
    ELSE [w |-> ran.w, responses |-> <<Response("SUCCESS", msg.id)>>]

\* the listener: the switch, then postMessage of SUCCESS inside the try
\* (part_006:94-98), or of ERROR in the catch (part_006:100-110)
Listener(w, msg) ==
    LET ran == Switch(w, msg) IN
    IF ran.thrown \/ ~ran.cloneable
    THEN [w |-> ran.w, responses |-> <<Response("ERROR", msg.id)>>]
    ELSE [w |-> ran.w, responses |-> <<Response("SUCCESS", msg.id)>>]

MessageIds == {1, 2}

\* a control message of one of `types` arrives, with or without data; its id
\* differs from the previous one. At most MaxCancels CANCEL_PRELOAD and
\* MaxClears CLEAR_CACHE messages arrive, and at most `limit` items are created.
MessageOf(types, limit) ==
    \E type \in types, id \in MessageIds :
        \E data \in DataOf(type) \cup {<<>>} :
            LET msg == [type |-> type, id |-> id, data |-> data]
                out == Listener(World, msg)
                cancels == IF type = "CANCEL_PRELOAD" /\ data # <<>> THEN 1 ELSE 0
                clears == IF type = "CLEAR_CACHE" THEN 1 ELSE 0
            IN  /\ handled # <<>> => id # handled[1].msg.id
                /\ Len(out.w.items) <= limit
                /\ used.cancels + cancels <= MaxCancels
                /\ used.clears + clears <= MaxClears
                /\ CommitWorker(out.w)
                /\ burst' = BurstAfterEvent(out.w)
                /\ handled' = <<[msg |-> msg, responses |-> out.responses]>>
                /\ used' = [used EXCEPT !.cancels = @ + cancels, !.clears = @ + clears]
                /\ UNCHANGED <<swvars, pvars, observed, precached, cvars, mvars>>

\* a control message arrives: of a recognized type, or of a type the switch
\* does not know
Message == MessageOf(MessageTypes \cup {"RESET"}, MaxMessageTracks)

NextMessages == Message

SpecMessages == Init /\ [][NextMessages]_vars

\* C29: every control message gets exactly one response, which carries the id
\* of the message and is of type SUCCESS or ERROR; a message of a type that is
\* not recognized gets ERROR and leaves the state of the worker as it was.
C29_OneResponsePerMessage ==
    /\ [](handled # <<>> =>
            LET h == handled[1] IN
            /\ Len(h.responses) = 1
            /\ h.responses[1].id = h.msg.id
            /\ h.responses[1].type \in {"SUCCESS", "ERROR"}
            /\ h.msg.type \notin MessageTypes => h.responses[1].type = "ERROR")
    /\ [][(handled' # handled /\ handled'[1].msg.type \notin MessageTypes) =>
            UNCHANGED <<state, items, tasks, timers>>]_vars

\* a message of an unknown type was answered with ERROR while an item was in
\* flight and another queued
C29_Witness ==
    /\ handled # <<>>
    /\ handled[1].msg.type \notin MessageTypes
    /\ handled[1].responses = <<Response("ERROR", handled[1].msg.id)>>
    /\ Running # {}

----------------------------------------------------------------------------
(* Startup pre-population of the static partition: part_005:182-200 *)

\* STATIC_RESOURCES, part_005:126-147; entries 17 and 20 are the two that
\* getFallbackResponse reads
STATIC_RESOURCES ==
    [k \in 1..20 |-> IF k = 17 THEN Placeholder
                     ELSE IF k = 20 THEN OfflinePage
                     ELSE <<"static", k>>]

RECURSIVE UpTo(_)

\* the sets of at most n entries of STATIC_RESOURCES
UpTo(n) ==
    IF n = 0 THEN {{}}
    ELSE LET fewer == UpTo(n - 1) IN
         fewer \cup {b \cup {k} : b \in fewer, k \in DOMAIN STATIC_RESOURCES}

\* cache.addAll(requests) where the entries in `bad` are missing or fail to
\* load: the promise rejects and nothing is written unless every request
\* was answered with an ok response; otherwise each response is put
AddAll(stored, requests, bad) ==
    IF bad # {} THEN stored
    ELSE stored \o SelectSeq(requests,
                             LAMBDA url : \A k \in 1..Len(stored) : stored[k] # url)

\* the install listener: addAll, then skipWaiting, with a catch that logs
Precache ==
    \E bad \in UpTo(MaxBad) :
        /\ store' = [store EXCEPT !["static"] = AddAll(@, STATIC_RESOURCES, bad)]
        /\ precached' = <<bad>>
        /\ ended' = {}
        /\ UNCHANGED <<open, aged, classified, wvars, pvars, observed, handled, cvars, mvars>>

NextInstall == Precache

SpecInstall == Init /\ [][NextInstall]_vars

\* C30: after startup pre-population every static resource that did not fail
\* to load is stored in the static partition.
C30_BadEntrySkipped ==
    precached # <<>> =>
        \A k \in DOMAIN STATIC_RESOURCES :
            k \notin precached[1] => StoredIn("static", STATIC_RESOURCES[k])

----------------------------------------------------------------------------
(* Claims about the bookkeeping of the media worker *)

\* C33: between handlers state.currentPreloads is never negative and equals
\* the number of entries of state.preloading, and state.preloading holds an
\* entry for an id exactly while a fetch for that id is in flight.
C33_CounterMatchesEntries ==
    /\ state.currentPreloads >= 0
    /\ state.currentPreloads = Cardinality({i \in Ids : state.preloading[i] # 0})
    /\ \A i \in Ids :
          state.preloading[i] # 0 <=> \E u \in Running : items[u].id = i

\* C34: no item whose id is recorded in state.preloaded is queued, in flight
\* or waiting for a retry timer.
C34_PreloadedIsAtRest ==
    \A u \in Uids :
        (Queued(u) \/ tasks[u] = "fetching" \/ u \in timers) =>
            items[u].id \notin state.preloaded

----------------------------------------------------------------------------
(* Claims about the ceiling trimCache applies *)

\* the request last classified, as getCacheForRequest and trimCache see it
ClassifiedRequest ==
    [pats |-> classified[1] \cup {"/"}, destination |-> classified[2], listed |-> FALSE]

----------------------------------------------------------------------------
(* Startup: the service worker activates and the page builds its
   CacheManager, over what earlier runs left in Cache Storage *)

MaxStartupTracks == 1   \* queueItem objects created in one behaviour of SpecStartup

\* the entries CacheManager.precacheResources adds: part_007:63-75
ManagerStaticResources == 11

\* caches.keys(): the names of the caches that exist
Keys ==
    {CACHES(p) : p \in Partitions}
        \cup (IF media # <<>> THEN {MediaCache} ELSE {})
        \cup {n \in OtherNames : others[n] # <<>>}

\* mutant of CleanOldCaches: no test against the whitelist
CleanOldCachesNoWhitelist(cacheNames) ==
    {name \in cacheNames : name.prefix = CACHE_PREFIX}

\* cleanOldCaches() of the service worker, the names it deletes: those that
\* start with CACHE_PREFIX and are not a value of CACHES
CleanOldCaches(cacheNames) ==
    LET cacheWhitelist == {CACHES(p) : p \in Partitions} IN
    {name \in cacheNames : name.prefix = CACHE_PREFIX /\ name \notin cacheWhitelist}

\* CacheManager.cleanOldCaches(), the names it deletes: those that are not a
\* value of this.cacheNames
ManagerCleanOldCaches(cacheNames) ==
    LET cacheWhitelist == ManagerCacheNames(CACHE_VERSION) IN
    {name \in cacheNames : name \notin cacheWhitelist}

\* caches.delete(name) for every name of `deleted`, then `after` on the
\* caches that are left
Deleting(deleted, after) ==
    /\ store' = [p \in Partitions |-> IF CACHES(p) \in deleted THEN <<>> ELSE store[p]]
    /\ aged' = {url \in aged : \E p \in Partitions :
                                 CACHES(p) \notin deleted /\ StoredIn(p, url)}
    /\ media' = IF MediaCache \in deleted THEN <<>> ELSE media
    /\ others' = [n \in OtherNames |->
                    IF n \in DOMAIN after THEN after[n]
                    ELSE IF n \in deleted THEN <<>> ELSE others[n]]
    /\ UNCHANGED <<state, items, tasks, timers, posted, starts, decs, cancelledAt,
                   used, burst, fifo, open, ended, classified, pvars, hvars, mvars>>

\* a run of the previous version stored an entry in one of its caches, before
\* any cleanup of the current version
Earlier ==
    \E n \in PreviousNames :
        /\ cleaned = <<>>
        /\ others[n] = <<>>
        /\ others' = [others EXCEPT ![n] = <<1>>]
        /\ UNCHANGED <<cleaned, wvars, swvars, pvars, hvars, mvars>>

\* the activate listener: cleanOldCaches(), then clients.claim()
Activate ==
    LET deleted == CleanOldCaches(Keys) IN
    /\ cleaned' = <<[by |-> "sw", deleted |-> deleted]>>
    /\ Deleting(deleted, <<>>)

\* CacheManager.init(): cleanOldCaches(), then precacheResources(), whose
\* caches.open creates the static cache and whose addAll stores every
\* resource or none
ManagerInit ==
    \E entries \in {0, ManagerStaticResources} :
        LET deleted == ManagerCleanOldCaches(Keys)
            static == CacheName("", "static", CACHE_VERSION)
            had == IF others[static] = <<>> THEN 0 ELSE others[static][1]
        IN  /\ cleaned' = <<[by |-> "manager", deleted |-> deleted]>>
            /\ Deleting(deleted, [n \in {static} |-> <<IF had > entries THEN had ELSE entries>>])

NextStartup ==
    \/ Earlier
    \/ Install
    \/ Activate
    \/ ManagerInit
    \/ PreloadTrackOf({"a"}, {"medium"}, MaxStartupTracks)
    \/ FetchSucceeds

SpecStartup == Init /\ [][NextStartup]_vars

\* C31: a run of the service worker's startup cleanup leaves no partition
\* that carries the engine's prefix and another version than the current
\* one, and leaves every current partition with the entries it had.
C31_OldVersionsDeletedCurrentKept ==
    [][Activate =>
          /\ \A n \in OtherNames :
                (n.prefix = CACHE_PREFIX /\ n.version # CACHE_VERSION) => others'[n] = <<>>
          /\ store' = store]_vars

\* the startup cleanup of the service worker has just deleted a partition
\* of the previous version while the static partition held its entries
C31_Witness ==
    /\ cleaned # <<>>
    /\ cleaned[1].by = "sw"
    /\ \E n \in cleaned[1].deleted : n.prefix = CACHE_PREFIX /\ n.version = PreviousVersion
    /\ Stored(OfflinePage)

\* C37: no run of a startup cleanup, of the CacheManager or of the service
\* worker, removes one of the service worker's five current partitions or
\* the worker's media-cache, or an entry of them.
C37_CleanupSparesOtherOwners ==
    [][(Activate \/ ManagerInit) => (store' = store /\ media' = media)]_vars

----------------------------------------------------------------------------
(* CLEAR_CACHE while preloads are in flight or wait for their retry *)

MaxClearTracks == 2     \* queueItem objects created in one behaviour of SpecClear

NextClear ==
    \/ MessageOf({"PRELOAD_TRACK", "CLEAR_CACHE"}, MaxClearTracks)
    \/ FetchSucceeds
    \/ FetchFails
    \/ RetryTimer

SpecClear == Init /\ [][NextClear]_vars

\* C35: while CLEAR_CACHE is the last control message received,
\* state.preloaded, state.preloading and state.preloadQueue are empty and
\* media-cache holds nothing.
C35_ClearedUntilNextTrack ==
    (handled # <<>> /\ handled[1].msg.type = "CLEAR_CACHE") =>
        /\ state.preloaded = {}
        /\ \A i \in Ids : state.preloading[i] = 0
        /\ state.preloadQueue = <<>>
        /\ media = <<>>

----------------------------------------------------------------------------
(* Movie deduplication: ChunkGenerator.processMovies (src/unnamed/part_003) *)

MaxMovies == 3          \* records given to one run of processMovies

Titles == {"Heat", " heat "}
Years == {1995, 1999}

\* the poster of a record: <<>> when the record has no such field, else
\* <<the string>>
Posters == {<<>>, <<"">>, <<"heat.jpg">>}

\* JavaScript truthiness of movie.poster: undefined and '' are falsy
Truthy(poster) == poster # <<>> /\ poster[1] # ""

\* title.toLowerCase().trim()
LowerTrim(title) ==
    CASE title = "Heat" -> "heat"
      [] title = " heat " -> "heat"
      [] OTHER -> title

\* the key `${titulo}_${year}` of a record
KeyOf(movie) == <<LowerTrim(movie.title), movie.year>>

\* uniqueMap is a Map: its entries [key, value] in the order of the first
\* insertion of their key
Has(uniqueMap, key) == \E k \in 1..Len(uniqueMap) : uniqueMap[k].key = key

Get(uniqueMap, key) ==
    uniqueMap[CHOOSE k \in 1..Len(uniqueMap) : uniqueMap[k].key = key].value

Set(uniqueMap, key, value) ==
    IF Has(uniqueMap, key)
    THEN [k \in 1..Len(uniqueMap) |->
            IF uniqueMap[k].key = key THEN [key |-> key, value |-> value] ELSE uniqueMap[k]]
    ELSE Append(uniqueMap, [key |-> key, value |-> value])

\* mutant of Visit: a record with a poster replaces the kept record, a record
\* without one does not
VisitPrefersOwnPoster(uniqueMap, movie) ==
    LET key == KeyOf(movie) IN
    IF ~Has(uniqueMap, key) \/ Truthy(movie.poster)
    THEN Set(uniqueMap, key, movie)
    ELSE uniqueMap

\* the callback of allMovies.forEach
Visit(uniqueMap, movie) ==
    LET key == KeyOf(movie) IN
    IF ~Has(uniqueMap, key) \/ ~Truthy(Get(uniqueMap, key).poster)
    THEN Set(uniqueMap, key, movie)
    ELSE uniqueMap

RECURSIVE Visited(_, _)

\* uniqueMap after each of the first n records of `movies`
Visited(movies, n) ==
    IF n = 0 THEN <<>>
    ELSE LET maps == Visited(movies, n - 1)
             uniqueMap == IF n = 1 THEN <<>> ELSE maps[n - 1]
         IN  Append(maps, Visit(uniqueMap, movies[n]))

\* processMovies() on a catalogue of up to MaxMovies records, once in a run of
\* the generator; `n` stands for the fields of a record other than title,
\* year and poster
ProcessMovies ==
    \E len \in 1..MaxMovies :
        \E titles \in [1..len -> Titles], years \in [1..len -> Years],
           posters \in [1..len -> Posters] :
            LET movies == [n \in 1..len |->
                             [title |-> titles[n], year |-> years[n],
                              poster |-> posters[n], n |-> n]]
                maps == Visited(movies, len)
                allMovies == [k \in 1..Len(maps[len]) |-> maps[len][k].value]
            IN  /\ deduped = <<>>
                /\ deduped' = <<[movies |-> movies, maps |-> maps, allMovies |-> allMovies,
                                 duplicatesRemoved |-> len - Len(allMovies)]>>
                /\ UNCHANGED <<wvars, swvars, pvars, hvars, cvars>>

NextMovies == ProcessMovies

SpecMovies == Init /\ [][NextMovies]_vars

\* uniqueMap before the n-th record of the last run was visited
MapBefore(n) == IF n = 1 THEN <<>> ELSE deduped[1].maps[n - 1]

\* the records of the last run that found a kept record with their key
Duplicates ==
    {n \in 1..Len(deduped[1].movies) : Has(MapBefore(n), KeyOf(deduped[1].movies[n]))}

KeptBefore(n) == Get(MapBefore(n), KeyOf(deduped[1].movies[n]))

KeptAfter(n) == Get(deduped[1].maps[n], KeyOf(deduped[1].movies[n]))

\* C32 as stated: a later record with a poster always replaces the record
\* kept for its title and year, and a later record without a poster never does.
C32_PosterAlwaysReplaces ==
    deduped # <<>> =>
        \A n \in Duplicates :
            KeptAfter(n) = IF Truthy(deduped[1].movies[n].poster)
                           THEN deduped[1].movies[n]
                           ELSE KeptBefore(n)

\* C32: a later record replaces the record kept for its title and year
\* exactly when the kept record has no poster, whether or not the later
\* record has one; so the record that stays is the first of its title and
\* year that has a poster, or the last one when none has.
C32_ReplacedIffKeptHasNoPoster ==
    deduped # <<>> =>
        LET movies == deduped[1].movies
            same(n) == {k \in 1..Len(movies) : KeyOf(movies[k]) = KeyOf(movies[n])}
            withPoster(n) == {k \in same(n) : Truthy(movies[k].poster)}
            Least(S) == CHOOSE k \in S : \A j \in S : k <= j
            Greatest(S) == CHOOSE k \in S : \A j \in S : j <= k
        IN  /\ \A n \in Duplicates :
                  KeptAfter(n) = IF Truthy(KeptBefore(n).poster)
                                 THEN KeptBefore(n)
                                 ELSE movies[n]
            /\ \A n \in 1..Len(movies) :
                  Get(deduped[1].maps[Len(movies)], KeyOf(movies[n])) =
                      IF withPoster(n) # {} THEN movies[Least(withPoster(n))]
                      ELSE movies[Greatest(same(n))]

\* a run in which a record with a poster met a kept record without one and
\* replaced it, and a later record with a poster met that one and did not
C32_Witness ==
    /\ deduped # <<>>
    /\ \E n \in Duplicates :
          /\ Truthy(deduped[1].movies[n].poster) /\ ~Truthy(KeptBefore(n).poster)
          /\ KeptAfter(n) = deduped[1].movies[n]
    /\ \E n \in Duplicates :
          /\ Truthy(deduped[1].movies[n].poster) /\ Truthy(KeptBefore(n).poster)
          /\ KeptAfter(n) = KeptBefore(n)

====
